---- MODULE Spec2Model ----
(***************************************************************************)
(* Application firewall prototype (fire_Wall/app_firewall.py and the       *)
(* cleanup script fire_Wall/cleanup_anomalies_script.py).                  *)
(*                                                                         *)
(* The state is the SQLite database file firewall_policies.db (its two     *)
(* tables), the error log app_firewall.log, and the position of the web    *)
(* console's request handler.  The collector (monitor_network_traffic),    *)
(* the cleanup script and the web console are separate threads/processes   *)
(* that share the database; every SQL statement followed by commit is one  *)
(* atomic step, and detect_anomalies, which issues two separate reads, is  *)
(* two steps.                                                              *)
(***************************************************************************)
EXTENDS Integers, Sequences, FiniteSets, TLC

VARIABLES
    tables,        \* TRUE iff firewall_policies.db holds the two tables
    network_logs,  \* rows of table network_logs, in rowid order
    app_policies,  \* rows of table app_policies, in rowid order
    nextId,        \* uuid4 draws made for network_logs rows so far, plus one
    nextPolicyId,  \* uuid4 draws made for app_policies rows so far, plus one
    error_logged,  \* app_firewall.log holds a line written by logging.error
    pc,            \* position of the web console's handler
    log_count,     \* detect_anomalies: the row count it reads
    anomalies,     \* detect_anomalies: the list it returns
    raised,        \* detect_anomalies ended in an exception
    fit_n,         \* rows handed to IsolationForest.fit, NotFitted if none
    response,      \* HTTP response the console is sending
    pass           \* observer: input and starting row count of the last pass

vars == <<tables, network_logs, app_policies, nextId, nextPolicyId, error_logged,
          pc, log_count, anomalies, raised, fit_n, response, pass>>

(***************************************************************************)
(* Bounds of the model.                                                    *)
(***************************************************************************)
MaxIds == 2        \* rows the collector may add in one behaviour
MaxConns == 2      \* sockets returned by one psutil.net_connections() call
MaxPolicies == 2   \* rows create_policy may add in one behaviour

(***************************************************************************)
(* Program constants.                                                      *)
(***************************************************************************)
MinLogs == 10      \* "if log_count < 10"

(***************************************************************************)
(* The environment: applications, the OS process table, and the sockets    *)
(* psutil.net_connections() may report.  An address is a record, and the   *)
(* empty tuple psutil gives for a missing address is <<>>.  A type is a    *)
(* record that has a name field or not.  "counters" says whether the       *)
(* connection tuple has the attributes sent and recv the collector reads;  *)
(* psutil's own sconn tuple has neither.                                   *)
(***************************************************************************)
Apps == {"chrome.exe", "suspicious_app.exe"}

ProcessName(pid) == IF pid = 100 THEN "chrome.exe" ELSE "suspicious_app.exe"

NoAddr == <<>>

Established ==
    [pid |-> 100, laddr |-> [ip |-> "192.168.1.2", port |-> 50000],
     raddr |-> [ip |-> "192.168.1.10", port |-> 443],
     type |-> [name |-> "SOCK_STREAM"], counters |-> TRUE, sent |-> 700, recv |-> 0]

NoCounters ==
    [pid |-> 200, laddr |-> [ip |-> "192.168.1.2", port |-> 50001],
     raddr |-> [ip |-> "10.0.0.5", port |-> 53],
     type |-> [value |-> 2], counters |-> FALSE, sent |-> 0, recv |-> 0]

Listening ==
    [pid |-> 100, laddr |-> [ip |-> "0.0.0.0", port |-> 5000],
     raddr |-> NoAddr,
     type |-> [name |-> "SOCK_STREAM"], counters |-> TRUE, sent |-> 0, recv |-> 0]

Sockets == {Established, NoCounters, Listening}

SeqsUpTo(S, n) == UNION {[1..k -> S] : k \in 0..n}

ConnLists == SeqsUpTo(Sockets, MaxConns)

(***************************************************************************)
(* uuid.uuid4(): the n-th draw, a value no earlier draw gave.              *)
(***************************************************************************)
uuid4(n) == n

(***************************************************************************)
(* monitor_network_traffic, lines 92-104: the filter and the log entry.    *)
(* The timestamp column (str(datetime.now())) is not read by any           *)
(* operation and is left out of the rows.                                  *)
(***************************************************************************)
HasBothAddrs(conn) == conn.laddr # NoAddr /\ conn.raddr # NoAddr

\* Faulty variant: the filter tests the local address only.
HasLocalAddr(conn) == conn.laddr # NoAddr

ConnectionsLocalOnly(all) == SelectSeq(all, HasLocalAddr)

Connections(all) == SelectSeq(all, HasBothAddrs)

Destination(conn) == conn.raddr.ip \o ":" \o ToString(conn.raddr.port)

\* conn.type.name if hasattr(conn.type, 'name') else 'Unknown'
Protocol(conn) ==
    IF "name" \in DOMAIN conn.type THEN conn.type.name ELSE "Unknown"

OrZero(v) == IF v = 0 THEN 0 ELSE v

\* Building the dict raises AttributeError when conn has no remote address
\* (conn.raddr.ip) or no sent / recv.
BuildRaises(conn) == conn.raddr = NoAddr \/ ~conn.counters

LogEntry(id, app_name, conn) ==
    [id |-> id,
     app_name |-> app_name,
     destination |-> Destination(conn),
     protocol |-> Protocol(conn),
     bytes_sent |-> OrZero(conn.sent),
     bytes_received |-> OrZero(conn.recv)]

(***************************************************************************)
(* _log_network_activity: INSERT INTO network_logs ...; commit.  It raises *)
(* sqlite3.OperationalError when the table does not exist.                 *)
(***************************************************************************)
InsertRaises(tbl) == ~tbl

\* Faulty variant: the insert replaces the stored rows.
OverwriteLog(logs, log_entry) == <<log_entry>>

_log_network_activity(logs, log_entry) == Append(logs, log_entry)

(***************************************************************************)
(* The for loop of monitor_network_traffic inside its try block: the first *)
(* exception leaves the loop and reaches the except clause.                *)
(***************************************************************************)
RECURSIVE ForEachConn(_, _, _, _, _)
ForEachConn(connections, app_name, logs, n, tbl) ==
    IF connections = <<>>
    THEN [logs |-> logs, next |-> n, raised |-> FALSE]
    ELSE IF BuildRaises(Head(connections)) \/ InsertRaises(tbl)
    THEN [logs |-> logs, next |-> n, raised |-> TRUE]
    ELSE ForEachConn(Tail(connections), app_name,
                     _log_network_activity(
                         logs, LogEntry(uuid4(n), app_name, Head(connections))),
                     n + 1, tbl)

\* logging.error(...) appends a line to app_firewall.log.
LogError(logged) == TRUE

(***************************************************************************)
(* Rows already in the store when the agent starts: none, or MinLogs - 1   *)
(* rows written by earlier collection passes.                              *)
(***************************************************************************)
SeedSizes == {0, MinLogs - 1}

SeedLogs(k) == [i \in 1..k |-> LogEntry(uuid4(i - k), "chrome.exe", Established)]

NoResponse == [status |-> 0, body |-> <<>>]

NoPass == [called |-> FALSE, app_name |-> "", all_conns |-> <<>>, before |-> 0]

Observed(app_name, all_conns, logs) ==
    [called |-> TRUE, app_name |-> app_name, all_conns |-> all_conns,
     before |-> Len(logs)]

Init ==
    /\ tables = TRUE
    /\ \E k \in SeedSizes : network_logs = SeedLogs(k)
    /\ app_policies = <<>>
    /\ nextId = 1
    /\ nextPolicyId = 1
    /\ error_logged = FALSE
    /\ pc = "idle"
    /\ log_count = -1
    /\ anomalies = <<>>
    /\ raised = FALSE
    /\ fit_n = -1
    /\ response = NoResponse
    /\ pass = NoPass

console == <<pc, log_count, anomalies, raised, fit_n, response>>

(***************************************************************************)
(* DatabaseManager.init_db: CREATE TABLE IF NOT EXISTS, twice.             *)
(***************************************************************************)
init_db(tbl) == TRUE

(***************************************************************************)
(* ApplicationFirewallAgent.__init__, called by whoever runs the           *)
(* collector.                                                              *)
(***************************************************************************)
agent_init ==
    /\ tables' = init_db(tables)
    /\ UNCHANGED <<network_logs, app_policies, nextId, nextPolicyId, error_logged, console>>

(***************************************************************************)
(* ApplicationFirewallAgent.monitor_network_traffic(app_name), with the    *)
(* list psutil.net_connections() returns as all_conns.                     *)
(***************************************************************************)
monitor_network_traffic(app_name, all_conns) ==
    LET out == ForEachConn(Connections(all_conns), app_name,
                           network_logs, nextId, tables)
    IN  /\ out.next - 1 <= MaxIds
        /\ network_logs' = out.logs
        /\ nextId' = out.next
        /\ error_logged' = IF out.raised THEN LogError(error_logged) ELSE error_logged
        /\ UNCHANGED <<tables, app_policies, nextPolicyId, console>>

(***************************************************************************)
(* cleanup_anomalies_script.py                                             *)
(***************************************************************************)
\* Faulty variant: the DELETE removes the oldest row only.
DeleteOldest(logs) == IF logs = <<>> THEN <<>> ELSE Tail(logs)

\* DELETE FROM network_logs; commit.
DeleteAll(logs) == <<>>

cleanup_network_logs ==
    /\ network_logs' = IF tables THEN DeleteAll(network_logs) ELSE network_logs
    /\ UNCHANGED <<tables, app_policies, nextId, nextPolicyId, error_logged, console>>

remove_database_file ==
    /\ tables' = FALSE
    /\ network_logs' = <<>>
    /\ app_policies' = <<>>
    /\ UNCHANGED <<nextId, nextPolicyId, error_logged, console>>

(***************************************************************************)
(* The web console.  One request is handled at a time:                     *)
(*   idle -> count -> (read ->) respond -> idle          for dashboard,    *)
(*   idle -> respond -> idle                  for the two other routes.    *)
(***************************************************************************)
store == <<tables, network_logs, app_policies, nextId, nextPolicyId>>

\* dashboard(), lines 177-178: a new agent, whose constructor runs init_db;
\* the process list it then takes does not touch the store.
dashboard_begin ==
    /\ pc = "idle"
    /\ tables' = init_db(tables)
    /\ pc' = "count"
    /\ UNCHANGED <<network_logs, app_policies, nextId, nextPolicyId, error_logged,
                   log_count, anomalies, raised, fit_n, response>>

\* Faulty variant: the threshold test is off by one.
InsufficientDataOffByOne(n) == n <= MinLogs

InsufficientData(n) == n < MinLogs

\* dashboard(), lines 181-189: the try around detect_anomalies, and the page.
\* Faulty variant: no try around the call, the exception becomes the page.
DashboardNoTry(exc, result) == IF exc THEN <<"Internal Server Error">> ELSE result

DashboardAnomalies(exc, result) == IF exc THEN <<>> ELSE result

Page(rows) == [status |-> 200, body |-> rows]

ServerError == [status |-> 500, body |-> <<>>]

(***************************************************************************)
(* IsolationForest: fit raises ValueError on an empty batch; predict       *)
(* labels each row by a function of its feature pair alone.  The library   *)
(* is outside the repository, so every such labelling is considered.       *)
(***************************************************************************)
Features(df) == {<<df[i].bytes_sent, df[i].bytes_received>> : i \in DOMAIN df}

FitRaises(df) == Len(df) = 0

Labellings(df) == [Features(df) -> {-1, 1}]

Flagged(df, predictions) ==
    LET outlier(row) == predictions[<<row.bytes_sent, row.bytes_received>>] = -1
    IN  SelectSeq(df, outlier)

(***************************************************************************)
(* detect_anomalies, lines 134-143: the row count and the threshold.        *)
(* When it returns or raises here, dashboard() goes on to render (lines    *)
(* 183-189) without touching the database, in the same step.               *)
(***************************************************************************)
detect_count ==
    /\ pc = "count"
    /\ IF ~tables
       THEN /\ raised' = TRUE
            /\ error_logged' = LogError(error_logged)
            /\ response' = Page(DashboardAnomalies(TRUE, anomalies))
            /\ pc' = "respond"
            /\ UNCHANGED <<log_count, anomalies>>
       ELSE /\ log_count' = Len(network_logs)
            /\ raised' = FALSE
            /\ error_logged' = error_logged
            /\ IF InsufficientData(Len(network_logs))
               THEN /\ anomalies' = <<>>
                    /\ response' = Page(DashboardAnomalies(FALSE, <<>>))
                    /\ pc' = "respond"
               ELSE /\ anomalies' = anomalies
                    /\ response' = response
                    /\ pc' = "read"
    /\ UNCHANGED <<store, fit_n>>

(***************************************************************************)
(* detect_anomalies, lines 146-167: SELECT * into df, then fit and predict *)
(* inside the try; then dashboard() renders.                               *)
(***************************************************************************)
detect_fit ==
    /\ pc = "read"
    /\ pc' = "respond"
    /\ IF ~tables
       THEN /\ raised' = TRUE
            /\ error_logged' = LogError(error_logged)
            /\ response' = Page(DashboardAnomalies(TRUE, anomalies))
            /\ UNCHANGED <<anomalies, fit_n>>
       ELSE LET df == network_logs
            IN  /\ raised' = FALSE
                /\ fit_n' = Len(df)
                /\ IF FitRaises(df)
                   THEN /\ anomalies' = <<>>
                        /\ error_logged' = LogError(error_logged)
                   ELSE /\ \E predictions \in Labellings(df) :
                              anomalies' = Flagged(df, predictions)
                        /\ error_logged' = error_logged
                /\ response' = Page(DashboardAnomalies(FALSE, anomalies'))
    /\ UNCHANGED <<store, log_count>>

\* The client takes the response; the handler's locals are gone.
client_receive ==
    /\ pc = "respond"
    /\ pc' = "idle"
    /\ response' = NoResponse
    /\ log_count' = -1
    /\ anomalies' = <<>>
    /\ raised' = FALSE
    /\ fit_n' = -1
    /\ UNCHANGED <<store, error_logged>>

(***************************************************************************)
(* get_app_logs(app_name): SELECT * FROM network_logs WHERE app_name = ?   *)
(***************************************************************************)
QueryByApp(logs, app_name) ==
    LET match(row) == row.app_name = app_name
    IN  SelectSeq(logs, match)

get_app_logs(app_name) ==
    /\ pc = "idle"
    /\ pc' = "respond"
    /\ response' = IF tables THEN Page(QueryByApp(network_logs, app_name))
                             ELSE ServerError
    /\ UNCHANGED <<store, error_logged, log_count, anomalies, raised, fit_n>>

(***************************************************************************)
(* create_policy(): INSERT OR REPLACE INTO app_policies with a new uuid4   *)
(* as primary key.  data is the request's JSON object.                     *)
(***************************************************************************)
Get(data, key, default) == IF key \in DOMAIN data THEN data[key] ELSE default

RECURSIVE Join(_)
Join(list) ==
    IF list = <<>> THEN ""
    ELSE IF Len(list) = 1 THEN list[1]
    ELSE list[1] \o "," \o Join(Tail(list))

PolicyRow(id, data) ==
    [id |-> id,
     app_name |-> data["app_name"],
     allowed_domains |-> Join(Get(data, "allowed_domains", <<>>)),
     allowed_ips |-> Join(Get(data, "allowed_ips", <<>>)),
     allowed_protocols |-> Join(Get(data, "allowed_protocols", <<>>)),
     is_active |-> Get(data, "is_active", TRUE)]

\* INSERT OR REPLACE: a row with the same primary key is replaced.
InsertOrReplace(rows, row) ==
    LET other(r) == r.id # row.id
    IN  Append(SelectSeq(rows, other), row)

PolicyRequests ==
    {[app_name |-> "chrome.exe",
      allowed_ips |-> <<"192.168.1.10", "10.0.0.1">>,
      allowed_protocols |-> <<"TCP">>],
     [app_name |-> "suspicious_app.exe", is_active |-> FALSE]}

create_policy(data) ==
    /\ pc = "idle"
    /\ pc' = "respond"
    /\ nextPolicyId <= MaxPolicies
    /\ IF tables
       THEN /\ app_policies' =
                   InsertOrReplace(app_policies, PolicyRow(uuid4(nextPolicyId), data))
            /\ nextPolicyId' = nextPolicyId + 1
            /\ response' = Page(<<"success">>)
       ELSE /\ response' = ServerError
            /\ UNCHANGED <<app_policies, nextPolicyId>>
    /\ UNCHANGED <<tables, network_logs, nextId, error_logged,
                   log_count, anomalies, raised, fit_n>>

(***************************************************************************)
(* The whole system: collector, cleanup script and web console.            *)
(***************************************************************************)
Next ==
    \/ agent_init /\ UNCHANGED pass
    \/ /\ \E app_name \in Apps, all_conns \in ConnLists :
              monitor_network_traffic(app_name, all_conns)
       /\ UNCHANGED pass
    \/ cleanup_network_logs /\ UNCHANGED pass
    \/ remove_database_file /\ UNCHANGED pass
    \/ dashboard_begin /\ UNCHANGED pass
    \/ detect_count /\ UNCHANGED pass
    \/ detect_fit /\ UNCHANGED pass
    \/ client_receive /\ UNCHANGED pass
    \/ (\E app_name \in Apps : get_app_logs(app_name)) /\ UNCHANGED pass
    \/ (\E data \in PolicyRequests : create_policy(data)) /\ UNCHANGED pass

Spec == Init /\ [][Next]_vars

(***************************************************************************)
(* The collector alone, with an observer that records each pass's input    *)
(* and forgets it when the store is changed by anyone else.                *)
(***************************************************************************)
NextCollector ==
    \/ \E app_name \in Apps, all_conns \in ConnLists :
           /\ monitor_network_traffic(app_name, all_conns)
           /\ pass' = Observed(app_name, all_conns, network_logs)
    \/ agent_init /\ pass' = NoPass
    \/ cleanup_network_logs /\ pass' = NoPass
    \/ remove_database_file /\ pass' = NoPass

SpecCollector == Init /\ [][NextCollector]_vars

(***************************************************************************)
(*                              The claims                                 *)
(***************************************************************************)

IsPrefix(s, t) == Len(s) <= Len(t) /\ SubSeq(t, 1, Len(s)) = s

\* The rows of a log that the last observed pass added, and the sockets of
\* its input that have both a local and a remote address.
NewRows == SubSeq(network_logs, pass.before + 1, Len(network_logs))

BothAddresses(conn) == conn.laddr # <<>> /\ conn.raddr # <<>>

Eligible == SelectSeq(pass.all_conns, BothAddresses)

Healthy(conn) == conn.counters

ActiveRows(app_name) ==
    {i \in DOMAIN app_policies :
        app_policies[i].app_name = app_name /\ app_policies[i].is_active}

RowSet(rows) == {rows[i] : i \in DOMAIN rows}

\* C1: every step that is neither cleanup_network_logs nor
\* remove_database_file leaves each stored row of network_logs in place and
\* unchanged, so the row count never decreases: the table before the step
\* is a prefix of the table after it.
C1_AppendOnly ==
    [][cleanup_network_logs \/ remove_database_file
         \/ IsPrefix(network_logs, network_logs')]_vars

\* C1 witness: rows were appended to a seeded store, a policy was created
\* and the console has answered a request, with every row still stored.
C1_Witness ==
    /\ Len(network_logs) > MinLogs
    /\ app_policies # <<>>
    /\ pc = "respond"

\* C2: app_policies never holds two active rows for the same app_name.
C2_OneActivePolicyPerApp ==
    \A app_name \in Apps : Cardinality(ActiveRows(app_name)) <= 1

\* C3: when the count step of detect_anomalies finds fewer than 10 rows
\* (9 included) it returns the empty list and fit is not called; when it
\* finds 10 or more it goes on to read the table, and the model is then
\* fitted on all the rows stored at that read, the result being rows of it.
C3_Threshold ==
    [][/\ (pc = "count" /\ pc' # "count" /\ tables) =>
              IF Len(network_logs) <= 9
              THEN /\ pc' = "respond"
                   /\ anomalies' = <<>>
                   /\ fit_n' = -1
                   /\ response'.body = <<>>
              ELSE pc' = "read"
       /\ (pc = "read" /\ pc' # "read" /\ tables) =>
              /\ log_count >= 10
              /\ fit_n' = Len(network_logs)
              /\ RowSet(anomalies') \subseteq RowSet(network_logs)]_vars

\* C3 witness: a store of exactly 10 rows was counted, read and fitted, and
\* rows were flagged.
C3_Witness ==
    /\ pc = "respond"
    /\ log_count = 10
    /\ fit_n = 10
    /\ anomalies # <<>>

\* C4: in a pass, every socket with both addresses whose own handling
\* does not fail gets its row, whatever happens to the other sockets.
C4_PerSocketIsolation ==
    (pass.called /\ tables) =>
        Len(NewRows) = Len(SelectSeq(Eligible, Healthy))

\* C5 as stated: detect_anomalies never ends in an exception.
C5_NeverRaises == ~raised

\* C5 amended: a failed fit yields the empty list from detect_anomalies
\* without an exception; an exception of detect_anomalies (from counting or
\* reading the table) is replaced by the empty list in dashboard, whose
\* page always carries a list of stored-row records, possibly empty.
C5_DashboardWellFormed ==
    (pc = "respond" /\ (raised \/ log_count # -1)) =>
        /\ response.status = 200
        /\ raised => response.body = <<>>
        /\ fit_n = 0 => (~raised /\ anomalies = <<>> /\ response.body = <<>>)
        /\ ~raised => response.body = anomalies

\* C5 witness: detect_anomalies raised and the dashboard page was built.
C5_Witness ==
    /\ pc = "respond"
    /\ raised
    /\ response.body = <<>>

\* C7: every row a pass adds carries the name of the process that owns its
\* socket.
C7_OwnerTagging ==
    pass.called =>
        \A i \in 1..Len(NewRows) :
            i <= Len(Eligible) =>
                NewRows[i].app_name = ProcessName(Eligible[i].pid)

\* Ids of the rows a pass added are new to the table and pairwise distinct.
FreshIds ==
    /\ \A i \in 1..Len(NewRows), j \in 1..pass.before :
           NewRows[i].id # network_logs[j].id
    /\ \A i, j \in 1..Len(NewRows) : i # j => NewRows[i].id # NewRows[j].id

C9_BulkClear ==
    [][/\ (cleanup_network_logs /\ tables) => Len(network_logs') = 0
       /\ IsPrefix(network_logs, network_logs') \/ network_logs' = <<>>
       /\ (tables /\ network_logs = <<>> /\ pc = "count" /\ pc' # "count") =>
              (log_count' = 0 /\ anomalies' = <<>> /\ response'.body = <<>>)
       /\ (tables /\ network_logs = <<>> /\ pc = "read" /\ pc' # "read") =>
              (fit_n' = 0 /\ anomalies' = <<>> /\ response'.body = <<>>)]_vars

\* C9 witness: rows had been added, the table was emptied, and a detection
\* that counted 10 rows before the clear read none after it.
C9_Witness ==
    /\ tables
    /\ network_logs = <<>>
    /\ nextId > 1
    /\ pc = "respond"
    /\ fit_n = 0

\* C10: the model is fitted only on the rows that passed the count check:
\* never on fewer than 10 rows, and a non-empty result never comes from
\* fewer than 10 rows.
C10_SnapshotConsistency ==
    /\ fit_n # -1 => fit_n >= 10
    /\ anomalies # <<>> => fit_n >= 10

====
